---------------------------- MODULE Spec2Model ----------------------------
(***************************************************************************)
(* Line classifier and brace-nesting validator of the Java syntax checker  *)
(* IDE (src/AFD.py): JavaSyntaxHighlighter._validate_text, its callers     *)
(* highlightBlock and JavaSyntaxCheckerIDE.runCode, and the file actions   *)
(* that change the editor's text.                                          *)
(*                                                                         *)
(* A line of text is a sequence of one-character strings.                  *)
(***************************************************************************)
EXTENDS Integers, Sequences, FiniteSets, TLC

-----------------------------------------------------------------------------
(* Character classes of Python's re module, over the characters used here. *)

\* \s : the whitespace characters (also what str.strip() removes)
Whitespace == {" ", "\t"}

Letters ==
  {"a", "b", "c", "d", "e", "f", "g", "h", "i", "j", "k", "l", "m",
   "n", "o", "p", "q", "r", "s", "t", "u", "v", "w", "x", "y", "z",
   "A", "B", "C", "D", "E", "F", "G", "H", "I", "J", "K", "L", "M",
   "N", "O", "P", "Q", "R", "S", "T", "U", "V", "W", "X", "Y", "Z"}

Digits == {"0", "1", "2", "3", "4", "5", "6", "7", "8", "9"}

\* \w : letters, digits and the underscore
WordChars == Letters \cup Digits \cup {"_"}

-----------------------------------------------------------------------------
(* Regular expressions as syntax trees, and re.match on an anchored        *)
(* pattern (^...$) as membership of the whole line in their language.      *)

Lit(str)   == [k |-> "lit", s |-> str]
Cls(set)   == [k |-> "cls", neg |-> FALSE, set |-> set]
NotCls(set) == [k |-> "cls", neg |-> TRUE, set |-> set]
Cat(rs)    == [k |-> "cat", rs |-> rs]
Alt(rs)    == [k |-> "alt", rs |-> rs]
Opt(r)     == [k |-> "opt", r |-> r]
Star(r)    == [k |-> "star", r |-> r]
Plus(r)    == [k |-> "plus", r |-> r]

RECURSIVE Ends(_, _, _)
RECURSIVE StarEnds(_, _, _, _)

\* The positions at which a match of re that starts at a position of `from`
\* can end; a position is the number of characters of s before it.
Ends(re, s, from) ==
  CASE re.k = "lit" ->
         {i + Len(re.s) : i \in {j \in from :
              /\ j + Len(re.s) <= Len(s)
              /\ SubSeq(s, j + 1, j + Len(re.s)) = re.s}}
    [] re.k = "cls" ->
         {i + 1 : i \in {j \in from :
              /\ j < Len(s)
              /\ (s[j + 1] \in re.set) # re.neg}}
    [] re.k = "cat" ->
         IF Len(re.rs) = 0 THEN from
         ELSE Ends(Cat(Tail(re.rs)), s, Ends(Head(re.rs), s, from))
    [] re.k = "alt" ->
         UNION {Ends(re.rs[n], s, from) : n \in DOMAIN re.rs}
    [] re.k = "opt" -> from \cup Ends(re.r, s, from)
    [] re.k = "star" -> StarEnds(re.r, s, from, from)
    [] re.k = "plus" ->
         LET once == Ends(re.r, s, from) IN StarEnds(re.r, s, once, once)

StarEnds(r, s, frontier, acc) ==
  LET new == Ends(r, s, frontier) \ acc
  IN  IF new = {} THEN acc ELSE StarEnds(r, s, new, acc \cup new)

\* re.match(pattern, s) for a pattern of the form ^...$ and a line s that
\* holds no line terminator
ReMatch(pattern, s) == Len(s) \in Ends(pattern, s, {0})

AnyMatch(patterns, s) == \E n \in DOMAIN patterns : ReMatch(patterns[n], s)

-----------------------------------------------------------------------------
(* The patterns of _validate_text.                                         *)

ws  == Star(Cls(Whitespace))       \* \s*
ws1 == Plus(Cls(Whitespace))       \* \s+
word == Plus(Cls(WordChars))       \* \w+
visibility == Alt(<<Lit(<<"p", "u", "b", "l", "i", "c">>), Lit(<<"p", "r", "i", "v", "a", "t", "e">>), Lit(<<"p", "r", "o", "t", "e", "c", "t", "e", "d">>)>>)

\* ^(public|private|protected)?\s*class\s+\w+\s*(\{)?$
class_pattern ==
  Cat(<<Opt(visibility), ws, Lit(<<"c", "l", "a", "s", "s">>), ws1, word, ws, Opt(Lit(<<"{">>))>>)

\* ^(public|private|protected)?\s*(static)?\s*(void|int|String|boolean)\s+\w+\s*\([^)]*\)\s*\{?$
method_pattern ==
  Cat(<<Opt(visibility), ws, Opt(Lit(<<"s", "t", "a", "t", "i", "c">>)), ws,
        Alt(<<Lit(<<"v", "o", "i", "d">>), Lit(<<"i", "n", "t">>), Lit(<<"S", "t", "r", "i", "n", "g">>), Lit(<<"b", "o", "o", "l", "e", "a", "n">>)>>),
        ws1, word, ws, Lit(<<"(">>), Star(NotCls({")"})), Lit(<<")">>),
        ws, Opt(Lit(<<"{">>))>>)

\* ^public\s+static\s+void\s+main\s*\(\s*String\s*\[\]\s*\w+\s*\)\s*\{?$
main_method_pattern ==
  Cat(<<Lit(<<"p", "u", "b", "l", "i", "c">>), ws1, Lit(<<"s", "t", "a", "t", "i", "c">>), ws1, Lit(<<"v", "o", "i", "d">>), ws1,
        Lit(<<"m", "a", "i", "n">>), ws, Lit(<<"(">>), ws, Lit(<<"S", "t", "r", "i", "n", "g">>), ws,
        Lit(<<"[", "]">>), ws, word, ws, Lit(<<")">>), ws, Opt(Lit(<<"{">>))>>)

control_patterns ==
  << \* ^(if|while|for)\s*\(\s*[^)]+\s*\)\s*\{?$
     Cat(<<Alt(<<Lit(<<"i", "f">>), Lit(<<"w", "h", "i", "l", "e">>), Lit(<<"f", "o", "r">>)>>), ws,
           Lit(<<"(">>), ws, Plus(NotCls({")"})), ws, Lit(<<")">>),
           ws, Opt(Lit(<<"{">>))>>),
     \* ^(System\.out\.println\s*\(\s*("[^"]*"|\w+)\s*\);)$
     Cat(<<Lit(<<"S", "y", "s", "t", "e", "m", ".", "o", "u", "t", ".", "p", "r", "i", "n", "t", "l", "n">>), ws, Lit(<<"(">>), ws,
           Alt(<<Cat(<<Lit(<<"\"">>), Star(NotCls({"\""})), Lit(<<"\"">>)>>),
                 word>>),
           ws, Lit(<<")", ";">>)>>) >>

variable_patterns ==
  << \* ^(int|String|boolean|double|float|long)\s+\w+\s*(=\s*[^;]+)?;$
     Cat(<<Alt(<<Lit(<<"i", "n", "t">>), Lit(<<"S", "t", "r", "i", "n", "g">>), Lit(<<"b", "o", "o", "l", "e", "a", "n">>),
                 Lit(<<"d", "o", "u", "b", "l", "e">>), Lit(<<"f", "l", "o", "a", "t">>), Lit(<<"l", "o", "n", "g">>)>>),
           ws1, word, ws,
           Opt(Cat(<<Lit(<<"=">>), ws, Plus(NotCls({";"}))>>)),
           Lit(<<";">>)>>),
     \* ^[a-zA-Z_]\w*\s*=\s*[^;]+;$
     Cat(<<Cls(Letters \cup {"_"}), Star(Cls(WordChars)), ws, Lit(<<"=">>),
           ws, Plus(NotCls({";"})), Lit(<<";">>)>>) >>

-----------------------------------------------------------------------------
(* re.sub(r'//.*$|/\*.*\*/', '', text).strip()                             *)

StartsAt(s, p, str) ==
  /\ p + Len(str) <= Len(s)
  /\ SubSeq(s, p + 1, p + Len(str)) = str

\* The positions q >= p + 2 at which a closing */ starts, for /* at p
Closers(s, p) == {q \in (p + 2)..Len(s) : StartsAt(s, q, <<"*", "/">>)}

SetMax(S) == CHOOSE m \in S : \A n \in S : n <= m

RECURSIVE SubComments(_, _)
\* The text from position p on with every leftmost match removed: // runs to
\* the end of the line, /* runs (greedily) to the last */ of the line.
SubComments(s, p) ==
  IF p >= Len(s) THEN <<>>
  ELSE IF StartsAt(s, p, <<"/", "/">>) THEN <<>>
  ELSE IF StartsAt(s, p, <<"/", "*">>) /\ Closers(s, p) # {}
       THEN SubComments(s, SetMax(Closers(s, p)) + 2)
  ELSE <<s[p + 1]>> \o SubComments(s, p + 1)

RECURSIVE LStrip(_)
LStrip(s) ==
  IF s # <<>> /\ Head(s) \in Whitespace THEN LStrip(Tail(s)) ELSE s

RECURSIVE RStrip(_)
RStrip(s) ==
  IF s # <<>> /\ s[Len(s)] \in Whitespace
  THEN RStrip(SubSeq(s, 1, Len(s) - 1)) ELSE s

Strip(s) == RStrip(LStrip(s))

\* Mutant of Clean: the comment text is left in the line.
Clean_KeepComments(text) == Strip(text)

\* text_clean of _validate_text
Clean(text) == Strip(SubComments(text, 0))

-----------------------------------------------------------------------------
(* JavaSyntaxHighlighter._validate_text                                    *)

\* Python's None for error_range (a tuple otherwise) and for correct_option
\* (a string otherwise); both are false in `if error_range:` and
\* `if correct_option:`, the tuple (0, n) and the suggestion are true.
NoRange == <<>>
NoOption == ""

Suggestion == "Expected a valid Java statement"

Max(a, b) == IF a >= b THEN a ELSE b

\* Mutant of OpenBrace: the increment is forgotten.
OpenBrace_NoIncrement(level) == level

\* self.current_block_level += 1
OpenBrace(level) == level + 1

\* Mutant of CloseBrace: the decrement is not floored.
CloseBrace_NoFloor(level) == level - 1

\* self.current_block_level = max(0, self.current_block_level - 1)
CloseBrace(level) == Max(0, level - 1)

\* Mutant of ClassHeader: the flag is left as it was.
ClassHeader_Keep(state) == state

\* self.class_parsing_state = True
ClassHeader(state) == TRUE

\* Mutant of ErrorRange: the span covers the cleaned text, not the line.
ErrorRange_Clean(text) == <<0, Len(Clean(text))>>

\* (0, len(text))
ErrorRange(text) == <<0, Len(text)>>

\* What a call leaves behind: the returned pair and the two fields of self.
Outcome(range, option, level, state) ==
  [error_range |-> range, correct_option |-> option,
   current_block_level |-> level, class_parsing_state |-> state]

\* _validate_text(text) called with self.current_block_level = level and
\* self.class_parsing_state = state
ValidateText(text, level, state) ==
  LET text_clean == Clean(text)
      statement  == AnyMatch(control_patterns \o variable_patterns, text_clean)
  IN  IF text_clean = <<>> THEN Outcome(NoRange, NoOption, level, state)
      ELSE IF text_clean = <<"{">>
           THEN Outcome(NoRange, NoOption, OpenBrace(level), state)
      ELSE IF text_clean = <<"}">>
           THEN Outcome(NoRange, NoOption, CloseBrace(level), state)
      ELSE IF ReMatch(class_pattern, text_clean)
           THEN Outcome(NoRange, NoOption, level, ClassHeader(state))
      ELSE IF \/ ReMatch(main_method_pattern, text_clean)
              \/ ReMatch(method_pattern, text_clean)
           THEN Outcome(NoRange, NoOption, level, state)
      ELSE IF level > 0 /\ statement
           THEN Outcome(NoRange, NoOption, level, state)
      ELSE IF ~ \/ ReMatch(class_pattern, text_clean)
                \/ ReMatch(method_pattern, text_clean)
                \/ ReMatch(main_method_pattern, text_clean)
                \/ statement
           THEN Outcome(ErrorRange(text), Suggestion, level, state)
      ELSE Outcome(NoRange, NoOption, level, state)

-----------------------------------------------------------------------------
(* Lines and documents the editor is given.                                *)

MaxLevel == 3      \* bound: no `{` line is classified at this nesting level
MaxDocLines == 2   \* bound: lines of the documents built from ScanLines

Blank         == <<>>
Spaces        == <<" ", " ", " ">>
LineComment   == <<"/", "/", " ", "n", "o", "t", "e">>
BlockComment  == <<" ", "/", "*", " ", "a", " ", "*", "/", " ", "/", "/", " ", "b">>
Open          == <<"{">>
OpenComment   == <<" ", " ", "{", " ", "/", "/", " ", "o", "p", "e", "n">>
Close         == <<"}">>
CloseTab      == <<"\t", "}", " ", "/", "*", " ", "e", "n", "d", " ", "*", "/">>
ClassBrace    == <<"p", "u", "b", "l", "i", "c", " ", "c", "l", "a", "s", "s", " ", "F", "o", "o", " ", "{">>
ClassFoo      == <<"p", "u", "b", "l", "i", "c", " ", "c", "l", "a", "s", "s", " ", "F", "o", "o">>
MainMethod    == <<"p", "u", "b", "l", "i", "c", " ", "s", "t", "a", "t", "i", "c", " ", "v", "o", "i", "d", " ", "m", "a", "i", "n", "(", "S", "t", "r", "i", "n", "g", "[", "]", " ", "a", "r", "g", "s", ")">>
Method        == <<"i", "n", "t", " ", "f", "(", "i", "n", "t", " ", "a", ")", " ", "{">>
IfHeader      == <<"i", "f", " ", "(", "x", " ", ">", " ", "0", ")", " ", "{">>
PrintHello    == <<"S", "y", "s", "t", "e", "m", ".", "o", "u", "t", ".", "p", "r", "i", "n", "t", "l", "n", "(", "\"", "H", "e", "l", "l", "o", "\"", ")", ";">>
Declaration   == <<"i", "n", "t", " ", "x", " ", "=", " ", "5", ";">>
Assignment    == <<"x", " ", "=", " ", "5", ";">>
AssignComment == <<" ", "x", " ", "=", " ", "5", ";", " ", "/", "/", " ", "s", "e", "t">>
MissingSemi   == <<"i", "n", "t", " ", "x", " ", "=", " ">>
FooBarBaz     == <<"f", "o", "o", " ", "b", "a", "r", " ", "b", "a", "z">>
Padded        == <<" ", " ", "f", "o", "o", "(", ")", ";", " ", " ">>
TwoBraces     == <<"{", " ", "}">>

Catalog ==
  {Blank, Spaces, LineComment, BlockComment, Open, OpenComment, Close,
   CloseTab, ClassBrace, ClassFoo, MainMethod, Method, IfHeader, PrintHello,
   Declaration, Assignment, AssignComment, MissingSemi, FooBarBaz, Padded,
   TwoBraces}

\* The lines of the documents of more than one line
ScanLines == {Open, Close, FooBarBaz}

\* The seven-line program
Program ==
  <<ClassFoo, Open, MainMethod, Open, Declaration, Close, Close>>

\* A program with two unrecognized lines around recognized ones
Broken == <<FooBarBaz, Open, MissingSemi, Close>>

SeqsUpTo(S, n) == UNION {[1..m -> S] : m \in 0..n}

\* The line sequences the editor holds: one line of the catalog, a few lines
\* of ScanLines, or one of the two files.
DocLines ==
  {<<l>> : l \in Catalog} \cup (SeqsUpTo(ScanLines, MaxDocLines) \ {<<>>})
    \cup {Program, Broken}

RECURSIVE Join(_)
\* '\n'.join(ls); the text of the editor whose blocks are ls
Join(ls) ==
  IF Len(ls) = 0 THEN <<>>
  ELSE IF Len(ls) = 1 THEN ls[1]
  ELSE ls[1] \o <<"\n">> \o Join(Tail(ls))

RECURSIVE SplitFrom(_, _, _)
SplitFrom(s, p, cur) ==
  IF p > Len(s) THEN <<cur>>
  ELSE IF s[p] = "\n" THEN <<cur>> \o SplitFrom(s, p + 1, <<>>)
  ELSE SplitFrom(s, p + 1, Append(cur, s[p]))

\* text.split('\n')
Split(s) == SplitFrom(s, 1, <<>>)

\* The files openFile can read
Files == {Join(Program), Join(Broken)}

\* The texts one edit away from the text s: a line typed into the empty
\* editor, a line added at the end, the last line deleted.
Edits(s) ==
  LET ls == Split(s)
  IN  {Join(d) : d \in {e \in DocLines :
         \/ s = <<>> /\ Len(e) = 1
         \/ Len(e) = Len(ls) + 1 /\ SubSeq(e, 1, Len(ls)) = ls
         \/ Len(ls) > 1 /\ e = SubSeq(ls, 1, Len(ls) - 1)}}
      \cup (IF Len(ls) = 1 THEN {<<>>} ELSE {})

-----------------------------------------------------------------------------
(* State.                                                                  *)

VARIABLES
  current_block_level,   \* JavaSyntaxHighlighter.current_block_level
  class_parsing_state,   \* JavaSyntaxHighlighter.class_parsing_state
  text,                  \* textEdit.toPlainText()
  modified,              \* textEdit.document().isModified()
  errorDisplay,          \* the paragraphs appended to errorDisplay
  pc,                    \* "idle", or "run" inside the loop of runCode
  lines,                 \* runCode: lines
  i,                     \* runCode: the index of the next line (from 0)
  error_count,           \* runCode: error_count
  call,                  \* the handler that ran last, with a call of
                         \* _validate_text it made: argument, fields of self
                         \* on entry, and outcome
  scan                   \* the run of runCode in progress or just ended:
                         \* the fields of self when it began and the calls
                         \* of _validate_text it has made

vars == <<current_block_level, class_parsing_state, text, modified,
          errorDisplay, pc, lines, i, error_count,
          call, scan>>

highlighter == <<current_block_level, class_parsing_state>>
locals == <<pc, lines, i, error_count>>

Valid == Outcome(NoRange, NoOption, 0, FALSE)

Handler(op) ==
  [op |-> op, text |-> <<>>, level |-> 0, state |-> FALSE, out |-> Valid]

Validated(line, level, state, out) ==
  [op |-> "validate", text |-> line, level |-> level, state |-> state,
   out |-> out]

NoScan == [on |-> FALSE, done |-> FALSE, level |-> 0, state |-> FALSE,
           calls |-> <<>>]

\* JavaSyntaxHighlighter.__init__, CodeEditor.__init__ and initUI: an empty,
\* unmodified editor and an empty error display.
Init ==
  /\ current_block_level = 0
  /\ class_parsing_state = FALSE
  /\ text = <<>>
  /\ modified = FALSE
  /\ errorDisplay = <<>>
  /\ pc = "idle"
  /\ lines = <<>>
  /\ i = 0
  /\ error_count = 0
  /\ call = Handler("init")
  /\ scan = NoScan

-----------------------------------------------------------------------------
(* Handlers.                                                               *)

\* highlightBlock(text), which Qt calls with the text of a block of the
\* document; the error span it formats is call.out.error_range.
highlightBlock(n) ==
  LET line == Split(text)[n]
      out  == ValidateText(line, current_block_level, class_parsing_state)
  IN  /\ pc = "idle"
      /\ out.current_block_level <= MaxLevel
      /\ current_block_level' = out.current_block_level
      /\ class_parsing_state' = out.class_parsing_state
      /\ call' = Validated(line, current_block_level, class_parsing_state, out)
      /\ scan' = NoScan
      /\ UNCHANGED <<text, modified, errorDisplay, locals>>

\* The user edits the text (keyPressEvent, cut, paste): the document
\* becomes modified.
editText(doc) ==
  /\ pc = "idle"
  /\ doc # text
  /\ text' = doc
  /\ modified' = TRUE
  /\ call' = Handler("editText")
  /\ scan' = NoScan
  /\ UNCHANGED <<highlighter, errorDisplay, locals>>

\* openFile: a cancelled dialog or a failed read (ok false) changes nothing;
\* otherwise setPlainText(file.read()), which leaves the document unmodified.
openFile(content, ok) ==
  /\ pc = "idle"
  /\ IF ok
     THEN text' = content /\ modified' = FALSE
     ELSE UNCHANGED <<text, modified>>
  /\ call' = Handler("openFile")
  /\ scan' = NoScan
  /\ UNCHANGED <<highlighter, errorDisplay, locals>>

\* newFile: with unsaved changes the user is asked; Cancel returns, Yes
\* saves first (the result of saveFile is not looked at, and what it writes
\* is outside this state). Then both text areas are cleared: clear() leaves
\* the document unmodified, and the empty block it leaves is one
\* _validate_text returns from at once. No field of the highlighter is
\* assigned.
newFile(reply) ==
  /\ pc = "idle"
  /\ modified \/ reply = "No"
  /\ IF modified /\ reply = "Cancel"
     THEN /\ call' = Handler("newFileCancelled")
          /\ UNCHANGED <<text, modified, errorDisplay>>
     ELSE /\ text' = <<>>
          /\ errorDisplay' = <<>>
          /\ modified' = FALSE
          /\ call' = Handler("newFile")
  /\ scan' = NoScan
  /\ UNCHANGED <<highlighter, locals>>

\* Mutant of ErrorEntry: the index of the line is reported, not its number.
ErrorEntry_ZeroBased(count, index, line) ==
  [kind |-> "Error", count |-> count, line_number |-> index, line |-> line]

\* f'Error {error_count} on line {i + 1}: {line}'
ErrorEntry(count, index, line) ==
  [kind |-> "Error", count |-> count, line_number |-> index + 1, line |-> line]

\* f'Suggestion: {correct_option}\n'
SuggestionEntry(option) == [kind |-> "Suggestion", option |-> option]

\* 'No syntax errors detected. Code looks good!'
NoErrorsEntry == [kind |-> "NoErrors"]

IsOpen(line) == Clean(line) = <<"{">>

RECURSIVE CountOpen(_)
CountOpen(ls) ==
  IF Len(ls) = 0 THEN 0
  ELSE (IF IsOpen(Head(ls)) THEN 1 ELSE 0) + CountOpen(Tail(ls))

\* runCode up to its loop: the error display is cleared and the text split.
runCode ==
  /\ pc = "idle"
  /\ current_block_level + CountOpen(Split(text)) <= MaxLevel
  /\ errorDisplay' = <<>>
  /\ lines' = Split(text)
  /\ i' = 0
  /\ error_count' = 0
  /\ pc' = "run"
  /\ call' = Handler("runCode")
  /\ scan' = [on |-> TRUE, done |-> FALSE, level |-> current_block_level,
              state |-> class_parsing_state, calls |-> <<>>]
  /\ UNCHANGED <<highlighter, text, modified>>

\* One iteration of the loop of runCode over enumerate(lines)
runCodeLine ==
  /\ pc = "run"
  /\ i < Len(lines)
  /\ LET line == lines[i + 1]
         out  == ValidateText(line, current_block_level, class_parsing_state)
         count == error_count + 1
     IN  /\ current_block_level' = out.current_block_level
         /\ class_parsing_state' = out.class_parsing_state
         /\ IF out.error_range # NoRange
            THEN /\ error_count' = count
                 /\ errorDisplay' =
                      IF out.correct_option # NoOption
                      THEN errorDisplay \o
                             <<ErrorEntry(count, i, line),
                               SuggestionEntry(out.correct_option)>>
                      ELSE Append(errorDisplay, ErrorEntry(count, i, line))
            ELSE UNCHANGED <<error_count, errorDisplay>>
         /\ i' = i + 1
         /\ call' = Validated(line, current_block_level, class_parsing_state,
                              out)
         /\ scan' = [scan EXCEPT
                       !.calls = Append(@, [text |-> line, out |-> out])]
  /\ UNCHANGED <<text, modified, pc, lines>>

\* runCode after its loop
runCodeEnd ==
  /\ pc = "run"
  /\ i = Len(lines)
  /\ errorDisplay' = IF error_count = 0
                     THEN Append(errorDisplay, NoErrorsEntry)
                     ELSE errorDisplay
  /\ pc' = "idle"
  /\ lines' = <<>>
  /\ i' = 0
  /\ error_count' = 0
  /\ call' = Handler("runCodeEnd")
  /\ scan' = [scan EXCEPT !.done = TRUE]
  /\ UNCHANGED <<highlighter, text, modified>>

Next ==
  \/ \E n \in 1..Len(Split(text)) : highlightBlock(n)
  \/ \E doc \in Edits(text) : editText(doc)
  \/ \E content \in Files, ok \in BOOLEAN : openFile(content, ok)
  \/ \E reply \in {"Yes", "No", "Cancel"} : newFile(reply)
  \/ runCode
  \/ runCodeLine
  \/ runCodeEnd

Spec == Init /\ [][Next]_vars

\* A step of the loop of runCode, by what it does to the loop index alone.
\* Under Next the steps that change i this way are the runCodeLine steps,
\* and runCodeLine is enabled exactly when this is (_validate_text returns
\* for every line).
LoopAdvances == pc = "run" /\ i < Len(lines) /\ i' = i + 1

\* runCode runs to its end on the calling thread: while the loop has lines
\* left it takes the next one, and after the last it finishes.
FairSpec == Spec /\ WF_i(LoopAdvances) /\ WF_vars(runCodeEnd)

-----------------------------------------------------------------------------
(* Properties.                                                             *)

IsValid(out) == out.error_range = NoRange /\ out.correct_option = NoOption

\* The last step was a call of _validate_text (from highlightBlock or from
\* the loop of runCode).
Called == call.op = "validate"

Recognized(t) ==
  \/ ReMatch(class_pattern, t)
  \/ ReMatch(method_pattern, t)
  \/ ReMatch(main_method_pattern, t)
  \/ AnyMatch(control_patterns, t)
  \/ AnyMatch(variable_patterns, t)

\* A line that matches a control-structure or variable pattern and no other
StatementOnly(t) ==
  /\ AnyMatch(control_patterns, t) \/ AnyMatch(variable_patterns, t)
  /\ ~ ReMatch(class_pattern, t)
  /\ ~ ReMatch(method_pattern, t)
  /\ ~ ReMatch(main_method_pattern, t)

\* C1: a line that matches only a control-structure or variable pattern is
\* Invalid when classified at nesting level 0 and Valid at level 1 or more.
C1_NestingGate ==
  Called /\ StatementOnly(Clean(call.text)) =>
    IF call.level = 0 THEN ~ IsValid(call.out) ELSE IsValid(call.out)

\* C2: the nesting level is a non-negative integer in every reachable state.
C2_LevelNonNegative == current_block_level \in Nat

\* A `}` line has just been classified at level 0.
C2_Witness ==
  /\ Called
  /\ Clean(call.text) = <<"}">>
  /\ call.level = 0
  /\ current_block_level = 0

\* C3: after a new-file action that was not cancelled, the nesting level is
\* 0 and the class flag is false.
C3_NewFileResets ==
  call.op = "newFile" =>
    current_block_level = 0 /\ class_parsing_state = FALSE

\* C4: when a whole-buffer run has ended, the nesting level and the class
\* flag are what they were when it began.
C4_RunHasNoSideEffect ==
  scan.done =>
    current_block_level = scan.level /\ class_parsing_state = scan.state

\* C5: a line whose cleaned text is exactly `{` is Valid and raises the
\* nesting level by exactly 1; one whose cleaned text is exactly `}` is
\* Valid and leaves the level at max(0, level - 1).
C5_BraceLines ==
  Called =>
    /\ Clean(call.text) = <<"{">> =>
         /\ IsValid(call.out)
         /\ current_block_level = call.level + 1
    /\ Clean(call.text) = <<"}">> =>
         /\ IsValid(call.out)
         /\ current_block_level = IF call.level = 0 THEN 0 ELSE call.level - 1

\* A `}` line with a comment after it has closed the second of two levels
\* that `{` lines opened.
C5_Witness ==
  /\ Called
  /\ call.text = CloseTab
  /\ call.level = 2
  /\ current_block_level = 1

\* The blank and comment-only lines of the catalog
BlankLines == {Blank, Spaces, LineComment, BlockComment}

\* C6: a blank or comment-only line (empty once its comments are removed and
\* it is trimmed) is Valid and leaves the nesting level as it was, at every
\* level.
C6_BlankLines ==
  Called /\ (call.text \in BlankLines \/ Clean(call.text) = <<>>) =>
    /\ IsValid(call.out)
    /\ current_block_level = call.level

\* A line holding only a block comment and a line comment has been
\* classified inside a block.
C6_Witness ==
  /\ Called
  /\ call.text = BlockComment
  /\ call.level = 2
  /\ current_block_level = 2
  /\ IsValid(call.out)

\* C7: a line that is not blank, not a brace and matches no pattern is
\* Invalid at every nesting level, with the span (0, length of the line as
\* given) and the fixed suggestion; every other line is Valid.
C7_UnrecognizedLines ==
  Called =>
    LET t == Clean(call.text)
    IN  IF t # <<>> /\ t # <<"{">> /\ t # <<"}">> /\ ~ Recognized(t)
        THEN /\ call.out.error_range = <<0, Len(call.text)>>
             /\ call.out.correct_option = "Expected a valid Java statement"
        ELSE IsValid(call.out)

\* `int x = ` has been classified inside a block: Invalid, with span (0, 8).
C7_Witness ==
  /\ Called
  /\ call.text = MissingSemi
  /\ call.level >= 1
  /\ call.out.error_range = <<0, 8>>
  /\ call.out.correct_option = Suggestion

\* The Error paragraphs of the error display, in order
ErrorsOf(display) == SelectSeq(display, LAMBDA e : e.kind = "Error")

RECURSIVE InvalidFrom(_, _)
\* The (number, line) pairs of the calls from the k-th on that were Invalid
InvalidFrom(calls, k) ==
  IF k > Len(calls) THEN <<>>
  ELSE (IF calls[k].out.error_range # NoRange
        THEN <<[line_number |-> k, line |-> calls[k].text]>>
        ELSE <<>>) \o InvalidFrom(calls, k + 1)

ScanInOrder ==
  scan.on =>
    /\ Len(scan.calls) <= Len(Split(text))
    /\ \A k \in 1..Len(scan.calls) : scan.calls[k].text = Split(text)[k]
    /\ scan.done => Len(scan.calls) = Len(Split(text))

ScanReports ==
  scan.on =>
    LET errors == ErrorsOf(errorDisplay)
        invalid == InvalidFrom(scan.calls, 1)
    IN  /\ Len(errors) = Len(invalid)
        /\ \A n \in 1..Len(errors) :
             /\ errors[n].line_number = invalid[n].line_number
             /\ errors[n].line = invalid[n].line
             /\ errors[n].count = n

\* C8: a whole-buffer run calls the classifier once per line of the text, in
\* line order, goes on after an Invalid line, reports one diagnostic per
\* Invalid line and none for a Valid one, in line order and with the 1-based
\* number of the line; and every run ends.
C8_ScanDriver ==
  /\ [](ScanInOrder /\ ScanReports)
  /\ (scan.on /\ ~ scan.done) ~> scan.done

\* The run over the four-line program with unrecognized lines 1 and 3 has
\* ended with both reported.
C8_Witness ==
  /\ scan.done
  /\ text = Join(Broken)
  /\ Len(scan.calls) = 4
  /\ Len(ErrorsOf(errorDisplay)) = 2
  /\ ErrorsOf(errorDisplay)[1].line_number = 1
  /\ ErrorsOf(errorDisplay)[2].line_number = 3
  /\ ErrorsOf(errorDisplay)[2].line = MissingSemi

\* C9: a line matching the class-declaration pattern, with or without a
\* trailing `{`, is Valid, sets the class flag and leaves the nesting level
\* as it was.
C9_ClassHeader ==
  Called /\ ReMatch(class_pattern, Clean(call.text)) =>
    /\ IsValid(call.out)
    /\ class_parsing_state = TRUE
    /\ current_block_level = call.level

\* `public class Foo {` has been classified with the flag not yet set.
C9_Witness ==
  /\ Called
  /\ call.text = ClassBrace
  /\ call.state = FALSE
  /\ class_parsing_state = TRUE
  /\ current_block_level = call.level

RECURSIVE Unclosed(_, _)
\* The number of `{` lines among the first k calls that no later `}` line
\* among them has closed
Unclosed(calls, k) ==
  IF k = 0 THEN 0
  ELSE LET before == Unclosed(calls, k - 1)
           t == Clean(calls[k].text)
       IN  IF t = <<"{">> THEN before + 1
           ELSE IF t = <<"}">> /\ before > 0 THEN before - 1
           ELSE before

\* C10: during a whole-buffer run, after each line the nesting level is the
\* number of `{` lines of the run not yet closed by a `}` line; the run of
\* the seven-line program finds every line Valid and ends at level 0.
C10_LevelCountsOpenBraces ==
  scan.on /\ Len(scan.calls) >= 1 =>
    /\ current_block_level = Unclosed(scan.calls, Len(scan.calls))
    /\ scan.done /\ text = Join(Program) =>
         /\ \A k \in 1..Len(scan.calls) : IsValid(scan.calls[k].out)
         /\ current_block_level = 0

=============================================================================
